---------------------------- MODULE Spec2Model ----------------------------
(***************************************************************************)
(* The SDK mutator pipeline of sdk/sdk.go: six mutators that record SDK    *)
(* membership on the modules of a build graph, ripple SDK requirements     *)
(* down from Mainline modules, replace dependencies on in-development      *)
(* members by their versioned snapshots and check the requirements.        *)
(*                                                                         *)
(* Module names and version tokens are sequences of one-character strings  *)
(* so that parsing a name into an SDK reference and strconv.Atoi are       *)
(* computed, character by character, the way the code computes them.       *)
(***************************************************************************)
EXTENDS Integers, Sequences, FiniteSets, Bags, TLC

(***************************************************************************)
(* Bounds of the model.                                                    *)
(***************************************************************************)
\* Longest version token enumerated after the '@' of an SDK module name.
MaxVerLen == 2
\* Largest number of SDK references a Mainline module declares in uses_sdks.
MaxUses == 2

(***************************************************************************)
(* Strings.                                                                *)
(***************************************************************************)
SdkVersionSeparator == "@"

Digits == {"0", "1", "2", "3", "4", "5", "6", "7", "8", "9"}

DigitVal(c) ==
    CASE c = "0" -> 0 [] c = "1" -> 1 [] c = "2" -> 2 [] c = "3" -> 3
      [] c = "4" -> 4 [] c = "5" -> 5 [] c = "6" -> 6 [] c = "7" -> 7
      [] c = "8" -> 8 [] c = "9" -> 9

\* Characters the enumerated version tokens are built from.
VerAlphabet == {"7", "x", "-", "+"}

RECURSIVE StringsUpTo(_)
StringsUpTo(n) ==
    IF n = 0 THEN {<< >>}
    ELSE LET shorter == StringsUpTo(n - 1)
         IN  shorter \cup {Append(s, c) : s \in shorter, c \in VerAlphabet}

Str_current == <<"c", "u", "r", "r", "e", "n", "t">>
Str_mysdk == <<"m", "y", "s", "d", "k">>
Str_other == <<"o", "t", "h", "e", "r">>
Str_11 == <<"1", "1">>
Str_12 == <<"1", "2">>
Str_5 == <<"5">>
Str_libfoo == <<"l", "i", "b", "f", "o", "o">>
Str_libfoo11 == Str_libfoo \o <<".">> \o Str_mysdk \o <<".">> \o Str_11
Str_libfoo12 == Str_libfoo \o <<".">> \o Str_mysdk \o <<".">> \o Str_12
Str_libbar == <<"l", "i", "b", "b", "a", "r">>
Str_libbaz == <<"l", "i", "b", "b", "a", "z">>
Str_gen == <<"g", "e", "n">>
Str_defs == <<"d", "e", "f", "s">>
Str_apex == <<"a", "p", "e", "x">>
Str_empty == << >>

\* <name>@<version>
Versioned(name, version) == name \o <<SdkVersionSeparator>> \o version

(***************************************************************************)
(* strconv.Atoi, as memberDepsMutator uses it: the error result decides,   *)
(* the number is computed for the tokens that parse.  A token is accepted  *)
(* when it is an optional sign followed by one or more decimal digits.     *)
(* The tokens of the model stay far below the 64-bit range.                *)
(***************************************************************************)
RECURSIVE DecimalValue(_)
DecimalValue(s) ==
    IF Len(s) = 0 THEN 0
    ELSE DecimalValue(SubSeq(s, 1, Len(s) - 1)) * 10 + DigitVal(s[Len(s)])

Atoi(s) ==
    LET signed == Len(s) > 0 /\ s[1] \in {"-", "+"}
        body   == IF signed THEN SubSeq(s, 2, Len(s)) ELSE s
        ok     == Len(body) > 0 /\ \A i \in 1..Len(body) : body[i] \in Digits
    IN  IF ~ok THEN [n |-> 0, err |-> TRUE]
        ELSE [n   |-> IF signed /\ s[1] = "-" THEN 0 - DecimalValue(body)
                      ELSE DecimalValue(body),
              err |-> FALSE]

(***************************************************************************)
(* SDK references (android.SdkRef).                                        *)
(***************************************************************************)
SdkRef(name, version) == [Name |-> name, Version |-> version]

\* The containing SDK of a module that is in no SDK.
NoSdk == SdkRef(Str_empty, Str_empty)

Unversioned(ref) == ref.Version = Str_empty

\* Index of the first separator of str, 0 when there is none.
SeparatorAt(str) ==
    IF \E i \in 1..Len(str) : str[i] = SdkVersionSeparator
    THEN CHOOSE i \in 1..Len(str) :
            /\ str[i] = SdkVersionSeparator
            /\ \A j \in 1..(i - 1) : str[j] # SdkVersionSeparator
    ELSE 0

\* android.ParseSdkRef on a name with at most one separator.
ParseSdkRef(str) ==
    LET at == SeparatorAt(str)
    IN  IF at = 0 THEN SdkRef(str, Str_empty)
        ELSE SdkRef(SubSeq(str, 1, at - 1), SubSeq(str, at + 1, Len(str)))

\* android.SdkRefs.Contains
Contains(refs, ref) == ref \in refs


(***************************************************************************)
(* The module graph.                                                       *)
(*                                                                         *)
(* mods, nodes: the modules of the graph and their declared properties,    *)
(*              fixed at graph construction.  A module is one variant of   *)
(*              a module name.                                             *)
(* directDeps:  each module's list of dependency edges (module, tag).      *)
(* containingSdk: properties.ContainingSdk of each module, << >> when nil. *)
(* requiredSdks:  properties.RequiredSdks of each module.                  *)
(* errs:        the errors reported so far (a bag).                        *)
(* mutator:     index of the mutator the host is running, 7 when done.     *)
(* visited:     the modules the running mutator has been run on.           *)
(* pending:     reverse dependencies and replacements the running mutator  *)
(*              has requested; the host applies them when the mutator has  *)
(*              visited every module.                                      *)
(* ran:         per module, the names of the mutators run on it, in order. *)
(* visiting:    per module, the index of the dependency that the running   *)
(*              visit of the module comes to next, 0 when no visit of the  *)
(*              module is under way.                                       *)
(***************************************************************************)
VARIABLES mods, nodes, directDeps, containingSdk, requiredSdks, errs,
          mutator, visited, pending, ran, visiting

vars == <<mods, nodes, directDeps, containingSdk, requiredSdks, errs,
          mutator, visited, pending, ran, visiting>>

Nodes == {nodes[i] : i \in 1..Len(nodes)}

(***************************************************************************)
(* Dependency tags.                                                        *)
(***************************************************************************)
\* sdkMemberDependencyTag of one member list property
MemberTag(property) ==
    [kind |-> "member", property |-> property, member |-> Str_empty, version |-> Str_empty]

\* sdkMemberVesionedDepTag
VersionedDepTag(member, version) ==
    [kind |-> "versioned", property |-> "", member |-> member, version |-> version]

\* android.DefaultsDepTag
DefaultsDepTag ==
    [kind |-> "defaults", property |-> "", member |-> Str_empty, version |-> Str_empty]

\* any other tag, of the module types that use SDK members
OtherDepTag ==
    [kind |-> "dep", property |-> "", member |-> Str_empty, version |-> Str_empty]

Dep(module, tag) == [module |-> module, tag |-> tag]

\* The names of the member list properties, in the order of the table.
sdkMemberListProperties ==
    <<"native_shared_libs", "java_header_libs", "java_libs", "stubs_sources">>

sdkProperties(native, headers, java, stubs) ==
    [native_shared_libs |-> native, java_header_libs |-> headers,
     java_libs |-> java, stubs_sources |-> stubs]

NoProperties == sdkProperties(<< >>, << >>, << >>, << >>)

(***************************************************************************)
(* Module constructors.  isSdk: the module is an *sdk; sdkAware: it        *)
(* implements android.SdkAware; apexAware: it also has DepIsInSameApex,    *)
(* which answers TRUE for the modules of sameApex.  uses_sdks: the SDKs a  *)
(* Mainline module declares, its RequiredSdks when the pipeline starts.    *)
(* deps: the dependencies the module has before step 1.                    *)
(***************************************************************************)
Module(isSdk, sdkAware, apexAware, name, variant) ==
    [isSdk |-> isSdk, sdkAware |-> sdkAware, apexAware |-> apexAware,
     name |-> name, variant |-> variant, Snapshot |-> FALSE,
     properties |-> NoProperties, memberName |-> Str_empty, sameApex |-> {},
     uses_sdks |-> {}, deps |-> << >>]

\* ModuleFactory: an sdk module
ModuleFactory(name, properties) ==
    [Module(TRUE, FALSE, FALSE, name, "") EXCEPT !.properties = properties]

\* SnapshotModuleFactory: an sdk module with the Snapshot flag set
SnapshotModuleFactory(name, properties) ==
    [ModuleFactory(name, properties) EXCEPT !.Snapshot = TRUE]

snapshot(s) == s.Snapshot

\* An SDK aware module, sdk_member_name as given
Library(name, variant, memberName) ==
    [Module(FALSE, TRUE, FALSE, name, variant) EXCEPT !.memberName = memberName]

\* A Mainline module: SDK aware, with DepIsInSameApex
Mainline(name, variant, sameApex, uses) ==
    [Module(FALSE, TRUE, TRUE, name, variant) EXCEPT !.sameApex = sameApex,
                                                     !.uses_sdks = uses]

\* A module that is not SDK aware
Plain(name, variant) == Module(FALSE, FALSE, FALSE, name, variant)

(***************************************************************************)
(* android.SdkBase: the SdkAware methods.                                  *)
(***************************************************************************)
IsInAnySdk(n) == containingSdk[n] # << >>

ContainingSdk(n) == IF containingSdk[n] # << >> THEN containingSdk[n][1] ELSE NoSdk

MemberName(n) == mods[n].memberName

RequiredSdks(n) == requiredSdks[n]

\* The value of properties.ContainingSdk after MakeMemberOf(sdk): the
\* containing SDK is assigned once, the first SDK that claims the module
\* stays
MakeMemberOf(old, sdk) == IF old = << >> THEN <<sdk>> ELSE old

\* The value of properties.RequiredSdks after BuildWithSdks(sdks)
BuildWithSdks(old, sdks) == old \cup sdks

DepIsInSameApex(n, dep) == dep \in mods[n].sameApex

(***************************************************************************)
(* The host's view of the graph.                                           *)
(***************************************************************************)
DepModules(n) == {directDeps[n][i].module : i \in 1..Len(directDeps[n])}

\* The modules that depend directly on n
ReverseDeps(n) == {m \in Nodes : n \in DepModules(m)}

\* The module called name that has the variant of module n (none: {})
ModuleMatchingVariant(n, name) ==
    {m \in Nodes : mods[m].name = name /\ mods[m].variant = mods[n].variant}

\* The modules called name, every variant, in the order of the graph
ModulesNamed(name) == SelectSeq(nodes, LAMBDA m : mods[m].name = name)

RECURSIVE Flatten(_)
Flatten(ss) == IF Len(ss) = 0 THEN << >> ELSE Head(ss) \o Flatten(Tail(ss))

(***************************************************************************)
(* Errors.  A property error names the module and the property, a module   *)
(* error the module; the remaining fields are the arguments of the message.*)
(***************************************************************************)
MsgSnapshotName == "sdk_snapshot should be named as <name>@<version>"
MsgSdkName == "sdk shouldn't be named as <name>@<version>"
MsgVersion == "version is neither a number nor current"
MsgRequirement == "depends on a module that isn't part of the required SDKs"
MsgUndefined == "depends on undefined module"
MsgMissingVariant == "dependency is missing variant"

PropertyErrorf(n, property, msg, version) ==
    [module |-> n, kind |-> "property", property |-> property, msg |-> msg,
     version |-> version, dep |-> Str_empty, sdk |-> NoSdk, allowed |-> {}]

ModuleErrorf(n, msg, dep, sdk, allowed) ==
    [module |-> n, kind |-> "module", property |-> "", msg |-> msg,
     version |-> Str_empty, dep |-> dep, sdk |-> sdk, allowed |-> allowed]

\* The bag of the errors of a list of optional errors (<< >> or <<e>> each)
RECURSIVE Reported(_)
Reported(es) ==
    IF Len(es) = 0 THEN EmptyBag
    ELSE LET rest == Reported(Tail(es))
         IN  IF Len(Head(es)) = 0 THEN rest ELSE SetToBag({Head(es)[1]}) (+) rest

(***************************************************************************)
(* The host: the mutators in the order of their registration, each run on  *)
(* every module before the next starts.  A bottom-up mutator visits a      *)
(* module after its dependencies, a top-down one after its dependents;     *)
(* the modules that are ready are visited in any order, and the visits of  *)
(* two ready modules run at the same time (Parallel).  The host serializes *)
(* the calls that write one module.  A visit whose writes to other modules *)
(* depend on the order of the writes (MakeMemberOf) is one step per call;  *)
(* a visit whose writes give the same result in any order (the union of    *)
(* BuildWithSdks, the errors added to the bag) is one step.                *)
(***************************************************************************)
\* RegisterPreDepsMutators with the first two registrations exchanged
RegisterPreDepsMutators_exchanged ==
    << [name |-> "SdkMember_deps", direction |-> "TopDown"],
       [name |-> "SdkMember", direction |-> "BottomUp"],
       [name |-> "SdkMemberInterVersion", direction |-> "BottomUp"] >>

RegisterPreDepsMutators ==
    << [name |-> "SdkMember", direction |-> "BottomUp"],
       [name |-> "SdkMember_deps", direction |-> "TopDown"],
       [name |-> "SdkMemberInterVersion", direction |-> "BottomUp"] >>

\* RegisterPostDepsMutators with SdkDepsMutator registered bottom-up
RegisterPostDepsMutators_bottomUp ==
    << [name |-> "SdkDepsMutator", direction |-> "BottomUp"],
       [name |-> "SdkDepsReplaceMutator", direction |-> "BottomUp"],
       [name |-> "SdkRequirementCheck", direction |-> "TopDown"] >>

RegisterPostDepsMutators ==
    << [name |-> "SdkDepsMutator", direction |-> "TopDown"],
       [name |-> "SdkDepsReplaceMutator", direction |-> "BottomUp"],
       [name |-> "SdkRequirementCheck", direction |-> "TopDown"] >>

Mutators == RegisterPreDepsMutators \o RegisterPostDepsMutators

Done == mutator > Len(Mutators)

\* The modules whose visit by the running mutator has returned
Finished == {m \in visited : visiting[m] = 0}

Ready(n) ==
    IF Mutators[mutator].direction = "TopDown"
    THEN ReverseDeps(n) \subseteq Finished
    ELSE DepModules(n) \subseteq Finished

\* The host runs the mutator called name on module n.
Visit(n, name) ==
    /\ ~Done
    /\ Mutators[mutator].name = name
    /\ n \in Nodes \ visited
    /\ Ready(n)
    /\ visited' = visited \cup {n}
    /\ ran' = [ran EXCEPT ![n] = Append(@, name)]
    /\ UNCHANGED <<mods, nodes, mutator>>

\* What the host finds when a request names a module that the graph does
\* not have
NoModule == ""

\* The module called name that has the variant of module n, for a request
FindMatchingVariant(n, name) ==
    IF ModuleMatchingVariant(n, name) = {} THEN NoModule
    ELSE CHOOSE d \in ModuleMatchingVariant(n, name) : TRUE

\* The error the host reports when module n asks for a change that names a
\* module the graph does not have; none when it has the module
UndefinedModule(n, name) ==
    IF FindMatchingVariant(n, name) # NoModule THEN EmptyBag
    ELSE SetToBag({[module |-> n, kind |-> "dependency", property |-> "",
                    msg |-> IF Len(ModulesNamed(name)) = 0 THEN MsgUndefined
                            ELSE MsgMissingVariant,
                    version |-> Str_empty, dep |-> name, sdk |-> NoSdk,
                    allowed |-> {}]})

\* A requested change of the graph; destName and name are names of modules.
AddReverseDependency(module, tag, destName) ==
    [op |-> "reverse", from |-> FindMatchingVariant(module, destName),
     to |-> module, tag |-> tag]

ReplaceDependencies(module, name) ==
    [op |-> "replace", from |-> FindMatchingVariant(module, name),
     to |-> module, tag |-> OtherDepTag]

\* deps with change c applied; rdeps: each module's dependents when the
\* mutator started, the modules a replacement looks at.  A replacement
\* rewires the dependents that have the variant of the replacing module.
\* A change that names a module the graph does not have changes nothing.
ApplyChange(deps, rdeps, c) ==
    IF c.from = NoModule THEN deps
    ELSE IF c.op = "reverse"
    THEN [deps EXCEPT ![c.from] = Append(@, Dep(c.to, c.tag))]
    ELSE [m \in DOMAIN deps |->
            IF m \in rdeps[c.from] /\ mods[m].variant = mods[c.to].variant
            THEN [i \in 1..Len(deps[m]) |->
                    IF deps[m][i].module = c.from
                    THEN [deps[m][i] EXCEPT !.module = c.to]
                    ELSE deps[m][i]]
            ELSE deps[m]]

RECURSIVE ApplyChanges(_, _, _)
ApplyChanges(deps, rdeps, cs) ==
    IF Len(cs) = 0 THEN deps
    ELSE ApplyChanges(ApplyChange(deps, rdeps, Head(cs)), rdeps, Tail(cs))

\* The running mutator has visited every module: the host applies the
\* changes it requested and starts the next mutator.
FinishMutator ==
    /\ ~Done
    /\ Finished = Nodes
    /\ directDeps' = ApplyChanges(directDeps, [n \in Nodes |-> ReverseDeps(n)], pending)
    /\ pending' = << >>
    /\ mutator' = mutator + 1
    /\ visited' = {}
    /\ UNCHANGED <<mods, nodes, containingSdk, requiredSdks, errs, ran, visiting>>

(***************************************************************************)
(* Step 1: create dependencies from an SDK module to its members.          *)
(***************************************************************************)
\* memberType.AddDependencies: an edge to every variant of each name
AddDependencies(tag, names) ==
    Flatten([i \in 1..Len(names) |->
                LET ms == ModulesNamed(names[i])
                IN  [j \in 1..Len(ms) |-> Dep(ms[j], tag)]])

\* memberMutator recording the membership on the members as it adds the edges
memberMutator_recordsMembers(n) ==
    /\ Visit(n, "SdkMember")
    /\ LET added ==
              IF mods[n].isSdk
              THEN Flatten([p \in 1..Len(sdkMemberListProperties) |->
                      AddDependencies(MemberTag(sdkMemberListProperties[p]),
                                      mods[n].properties[sdkMemberListProperties[p]])])
              ELSE << >>
       IN  /\ directDeps' = [directDeps EXCEPT ![n] = @ \o added]
           /\ containingSdk' =
                 [child \in Nodes |->
                     IF /\ mods[child].sdkAware
                        /\ \E i \in 1..Len(added) : added[i].module = child
                     THEN MakeMemberOf(containingSdk[child], ParseSdkRef(mods[n].name))
                     ELSE containingSdk[child]]
    /\ UNCHANGED <<requiredSdks, errs, pending, visiting>>

memberMutator(n) ==
    /\ Visit(n, "SdkMember")
    /\ directDeps' =
          IF mods[n].isSdk
          THEN [directDeps EXCEPT ![n] = @ \o
                  Flatten([p \in 1..Len(sdkMemberListProperties) |->
                      AddDependencies(MemberTag(sdkMemberListProperties[p]),
                                      mods[n].properties[sdkMemberListProperties[p]])])]
          ELSE directDeps
    /\ UNCHANGED <<containingSdk, requiredSdks, errs, pending, visiting>>

(***************************************************************************)
(* Step 2: record that dependencies of SDK modules are members of the SDK  *)
(* modules.                                                                *)
(***************************************************************************)
\* NameErrors with the two tests of the snapshot flag exchanged
NameErrors_flagExchanged(n) ==
    LET mySdkRef == ParseSdkRef(mods[n].name)
    IN  Reported(<<
          IF ~snapshot(mods[n]) /\ Unversioned(mySdkRef)
          THEN <<PropertyErrorf(n, "name", MsgSnapshotName, Str_empty)>> ELSE << >>,
          IF snapshot(mods[n]) /\ ~Unversioned(mySdkRef)
          THEN <<PropertyErrorf(n, "name", MsgSdkName, Str_empty)>> ELSE << >>,
          IF /\ mySdkRef.Version # Str_empty
             /\ mySdkRef.Version # Str_current
             /\ Atoi(mySdkRef.Version).err
          THEN <<PropertyErrorf(n, "name", MsgVersion, mySdkRef.Version)>> ELSE << >> >>)

\* The errors memberDepsMutator reports for SDK module n
NameErrors(n) ==
    LET mySdkRef == ParseSdkRef(mods[n].name)
    IN  Reported(<<
          IF snapshot(mods[n]) /\ Unversioned(mySdkRef)
          THEN <<PropertyErrorf(n, "name", MsgSnapshotName, Str_empty)>> ELSE << >>,
          IF ~snapshot(mods[n]) /\ ~Unversioned(mySdkRef)
          THEN <<PropertyErrorf(n, "name", MsgSdkName, Str_empty)>> ELSE << >>,
          IF /\ mySdkRef.Version # Str_empty
             /\ mySdkRef.Version # Str_current
             /\ Atoi(mySdkRef.Version).err
          THEN <<PropertyErrorf(n, "name", MsgVersion, mySdkRef.Version)>> ELSE << >> >>)

\* memberDepsMutator up to VisitDirectDeps: the checks of the name; the
\* children of an SDK module are visited next, one by one
memberDepsMutator(n) ==
    /\ Visit(n, "SdkMember_deps")
    /\ IF mods[n].isSdk
       THEN /\ errs' = errs (+) NameErrors(n)
            /\ visiting' = [visiting EXCEPT ![n] = IF Len(directDeps[n]) > 0 THEN 1 ELSE 0]
       ELSE UNCHANGED <<errs, visiting>>
    /\ UNCHANGED <<directDeps, containingSdk, requiredSdks, pending>>

\* The value recorded on a child, with the SDK's name without its version
MemberOf_unversioned(old, n) ==
    MakeMemberOf(old, SdkRef(ParseSdkRef(mods[n].name).Name, Str_empty))

\* The value recorded on a child, set on the child itself and not through
\* MakeMemberOf
MemberOf_assigns(old, n) == <<ParseSdkRef(mods[n].name)>>

\* The value of the child's ContainingSdk after the visit of SDK module n
\* has come to the child
MemberOf(old, n) == MakeMemberOf(old, ParseSdkRef(mods[n].name))

\* The function VisitDirectDeps is given, run on the next child of SDK
\* module n
memberDepsVisitChild(n) ==
    /\ ~Done
    /\ Mutators[mutator].name = "SdkMember_deps"
    /\ visiting[n] > 0
    /\ LET child == directDeps[n][visiting[n]].module
       IN  containingSdk' =
              IF mods[child].sdkAware
              THEN [containingSdk EXCEPT ![child] = MemberOf(@, n)]
              ELSE containingSdk
    /\ visiting' = [visiting EXCEPT ![n] = IF @ < Len(directDeps[n]) THEN @ + 1 ELSE 0]
    /\ UNCHANGED <<mods, nodes, directDeps, requiredSdks, errs, mutator, visited,
                   pending, ran>>

(***************************************************************************)
(* Step 3: create dependencies from the unversioned SDK member to snapshot *)
(* versions of the same member.                                            *)
(***************************************************************************)
\* memberInterVersionMutator with the test of Unversioned inverted
memberInterVersionMutator_unversionedOnly(n) ==
    /\ Visit(n, "SdkMemberInterVersion")
    /\ IF /\ mods[n].sdkAware
          /\ IsInAnySdk(n)
          /\ Unversioned(ContainingSdk(n))
       THEN LET memberName == MemberName(n)
                tag == VersionedDepTag(memberName, ContainingSdk(n).Version)
            IN  /\ pending' = Append(pending, AddReverseDependency(n, tag, memberName))
                /\ errs' = errs (+) UndefinedModule(n, memberName)
       ELSE UNCHANGED <<pending, errs>>
    /\ UNCHANGED <<directDeps, containingSdk, requiredSdks, visiting>>

memberInterVersionMutator(n) ==
    /\ Visit(n, "SdkMemberInterVersion")
    /\ IF /\ mods[n].sdkAware
          /\ IsInAnySdk(n)
          /\ ~Unversioned(ContainingSdk(n))
       THEN LET memberName == MemberName(n)
                tag == VersionedDepTag(memberName, ContainingSdk(n).Version)
            IN  /\ pending' = Append(pending, AddReverseDependency(n, tag, memberName))
                /\ errs' = errs (+) UndefinedModule(n, memberName)
       ELSE UNCHANGED <<pending, errs>>
    /\ UNCHANGED <<directDeps, containingSdk, requiredSdks, visiting>>

(***************************************************************************)
(* Step 4: transitively ripple down the SDK requirements from the root     *)
(* modules like APEX to its descendants.                                   *)
(***************************************************************************)
\* The modules reached from the modules of X by dependency edges
RECURSIVE ReachedFrom(_)
ReachedFrom(X) ==
    LET more == X \cup UNION {DepModules(x) : x \in X}
    IN  IF more = X THEN X ELSE ReachedFrom(more)

\* sdkDepsMutator visiting every module below n (WalkDeps) instead of the
\* direct dependencies
sdkDepsMutator_walkDeps(n) ==
    /\ Visit(n, "SdkDepsMutator")
    /\ requiredSdks' =
          IF mods[n].sdkAware /\ Cardinality(RequiredSdks(n)) > 0
          THEN [dep \in Nodes |->
                  IF dep \in ReachedFrom(DepModules(n)) /\ mods[dep].sdkAware
                  THEN BuildWithSdks(requiredSdks[dep], RequiredSdks(n))
                  ELSE requiredSdks[dep]]
          ELSE requiredSdks
    /\ UNCHANGED <<directDeps, containingSdk, errs, pending, visiting>>

\* sdkDepsMutator passing on the SDKs the module declares in uses_sdks, not
\* the ones it has received
sdkDepsMutator_declaredOnly(n) ==
    /\ Visit(n, "SdkDepsMutator")
    /\ requiredSdks' =
          IF mods[n].sdkAware /\ Cardinality(mods[n].uses_sdks) > 0
          THEN [dep \in Nodes |->
                  IF dep \in DepModules(n) /\ mods[dep].sdkAware
                  THEN BuildWithSdks(requiredSdks[dep], mods[n].uses_sdks)
                  ELSE requiredSdks[dep]]
          ELSE requiredSdks
    /\ UNCHANGED <<directDeps, containingSdk, errs, pending, visiting>>

sdkDepsMutator(n) ==
    /\ Visit(n, "SdkDepsMutator")
    /\ requiredSdks' =
          IF mods[n].sdkAware /\ Cardinality(RequiredSdks(n)) > 0
          THEN [dep \in Nodes |->
                  IF dep \in DepModules(n) /\ mods[dep].sdkAware
                  THEN BuildWithSdks(requiredSdks[dep], RequiredSdks(n))
                  ELSE requiredSdks[dep]]
          ELSE requiredSdks
    /\ UNCHANGED <<directDeps, containingSdk, errs, pending, visiting>>

(***************************************************************************)
(* Step 5: the versioned module is used instead of the un-versioned module *)
(* where its SDK version is requested.                                     *)
(***************************************************************************)
\* ReplaceRequest without the test that the module's own SDK is required
ReplaceRequest_notRequired(n) ==
    IF /\ mods[n].sdkAware
       /\ IsInAnySdk(n)
       /\ ~Unversioned(ContainingSdk(n))
    THEN <<ReplaceDependencies(n, MemberName(n))>>
    ELSE << >>

\* ReplaceRequest without the test that the containing SDK has a version
ReplaceRequest_unversionedToo(n) ==
    IF /\ mods[n].sdkAware
       /\ IsInAnySdk(n)
       /\ Contains(RequiredSdks(n), ContainingSdk(n))
    THEN <<ReplaceDependencies(n, MemberName(n))>>
    ELSE << >>

\* The replacement, if any, that module n requests: << >> or <<change>>
ReplaceRequest(n) ==
    IF /\ mods[n].sdkAware
       /\ IsInAnySdk(n)
       /\ ~Unversioned(ContainingSdk(n))
       /\ Contains(RequiredSdks(n), ContainingSdk(n))
    THEN <<ReplaceDependencies(n, MemberName(n))>>
    ELSE << >>

sdkDepsReplaceMutator(n) ==
    /\ Visit(n, "SdkDepsReplaceMutator")
    /\ pending' = pending \o ReplaceRequest(n)
    /\ errs' = IF Len(ReplaceRequest(n)) = 0 THEN errs
               ELSE errs (+) UndefinedModule(n, MemberName(n))
    /\ UNCHANGED <<directDeps, containingSdk, requiredSdks, visiting>>

(***************************************************************************)
(* Step 6: ensure that the dependencies from outside of the APEX are all   *)
(* from the required SDKs.                                                 *)
(***************************************************************************)
\* RequirementError with the test of DepIsInSameApex inverted
RequirementError_sameApexInverted(n, d) ==
    IF d.tag = DefaultsDepTag THEN << >>
    ELSE IF /\ mods[d.module].sdkAware
            /\ DepIsInSameApex(n, d.module)
            /\ ~Contains(RequiredSdks(n), ContainingSdk(d.module))
         THEN <<ModuleErrorf(n, MsgRequirement, mods[d.module].name,
                             ContainingSdk(d.module), RequiredSdks(n))>>
         ELSE << >>

\* RequirementError without the exemption of the defaults edges
RequirementError_defaultsChecked(n, d) ==
    IF /\ mods[d.module].sdkAware
       /\ ~DepIsInSameApex(n, d.module)
       /\ ~Contains(RequiredSdks(n), ContainingSdk(d.module))
    THEN <<ModuleErrorf(n, MsgRequirement, mods[d.module].name,
                        ContainingSdk(d.module), RequiredSdks(n))>>
    ELSE << >>

\* The error, if any, that visiting edge d of module n reports
RequirementError(n, d) ==
    IF d.tag = DefaultsDepTag THEN << >>
    ELSE IF /\ mods[d.module].sdkAware
            /\ ~DepIsInSameApex(n, d.module)
            /\ ~Contains(RequiredSdks(n), ContainingSdk(d.module))
         THEN <<ModuleErrorf(n, MsgRequirement, mods[d.module].name,
                             ContainingSdk(d.module), RequiredSdks(n))>>
         ELSE << >>

\* The first error of a list of optional errors, as a list of one or none
RECURSIVE FirstOnly(_)
FirstOnly(es) ==
    IF Len(es) = 0 THEN << >>
    ELSE IF Len(Head(es)) # 0 THEN <<Head(es)>> ELSE FirstOnly(Tail(es))

\* sdkRequirementsMutator leaving the visit of the dependencies at the first
\* violation
sdkRequirementsMutator_stopAtFirst(n) ==
    /\ Visit(n, "SdkRequirementCheck")
    /\ errs' =
          IF mods[n].apexAware /\ mods[n].sdkAware /\ Cardinality(RequiredSdks(n)) # 0
          THEN errs (+) Reported(FirstOnly([i \in 1..Len(directDeps[n]) |->
                                     RequirementError(n, directDeps[n][i])]))
          ELSE errs
    /\ UNCHANGED <<directDeps, containingSdk, requiredSdks, pending, visiting>>

sdkRequirementsMutator(n) ==
    /\ Visit(n, "SdkRequirementCheck")
    /\ errs' =
          IF mods[n].apexAware /\ mods[n].sdkAware /\ Cardinality(RequiredSdks(n)) # 0
          THEN errs (+) Reported([i \in 1..Len(directDeps[n]) |->
                                     RequirementError(n, directDeps[n][i])])
          ELSE errs
    /\ UNCHANGED <<directDeps, containingSdk, requiredSdks, pending, visiting>>

(***************************************************************************)
(* The graphs the pipeline is run on.  A graph lists its modules, their    *)
(* declared properties, the dependencies that exist before step 1 and the  *)
(* SDKs each Mainline module declares it uses (uses_sdks).                 *)
(***************************************************************************)
Ref11 == SdkRef(Str_mysdk, Str_11)
Ref12 == SdkRef(Str_mysdk, Str_12)
RefDev == SdkRef(Str_mysdk, Str_empty)

UsesPool == {Ref11, Ref12, RefDev}

UsesSets == {u \in SUBSET UsesPool : Cardinality(u) <= MaxUses}

\* Version tokens of the SDK names tried: every short string of the
\* alphabet, and the tokens of the scenarios.
VersionTokens == StringsUpTo(MaxVerLen) \cup {Str_current, Str_11, Str_5}

SdkNames == {Str_mysdk} \cup {Versioned(Str_mysdk, v) : v \in VersionTokens}

Graph(ns, ms, deps) ==
    [nodes |-> ns,
     mods |-> [n \in DOMAIN ms |->
                 IF n \in DOMAIN deps THEN [ms[n] EXCEPT !.deps = deps[n]] ELSE ms[n]]]

Natives(names) == sdkProperties(names, << >>, << >>, << >>)

JavaLibs(names) == sdkProperties(<< >>, << >>, names, << >>)

\* sdk mysdk and snapshot mysdk@11 with member libfoo; Mainline module apexA
\* depends twice on libfoo, apexB (another variant, no SDK required) once.
GraphsA ==
    { Graph(<<"sdk0", "snap11", "apexA", "apexB",
              "libfoo_a", "libfoo_b", "libfoo11_a", "libfoo11_b">>,
            "sdk0" :> ModuleFactory(Str_mysdk, Natives(<<Str_libfoo>>))
            @@ "snap11" :> SnapshotModuleFactory(Versioned(Str_mysdk, Str_11),
                                                 Natives(<<Str_libfoo11>>))
            @@ "apexA" :> Mainline(Str_apex, "a", same, uses)
            @@ "apexB" :> Mainline(Str_apex, "b", {}, {})
            @@ "libfoo_a" :> Library(Str_libfoo, "a", Str_empty)
            @@ "libfoo_b" :> Library(Str_libfoo, "b", Str_empty)
            @@ "libfoo11_a" :> Library(Str_libfoo11, "a", Str_libfoo)
            @@ "libfoo11_b" :> Library(Str_libfoo11, "b", Str_libfoo),
            "apexA" :> <<Dep("libfoo_a", OtherDepTag), Dep("libfoo_a", OtherDepTag)>>
            @@ "apexB" :> <<Dep("libfoo_b", OtherDepTag)>>)
      : uses \in UsesSets, same \in {{}, {"libfoo_a", "libfoo11_a"}} }

\* Two snapshots, mysdk@11 and mysdk@12; apexA depends on libfoo and directly
\* on the member of mysdk@12.
GraphsV ==
    { Graph(<<"sdk0", "snap11", "snap12", "apexA",
              "libfoo_a", "libfoo11_a", "libfoo12_a">>,
            "sdk0" :> ModuleFactory(Str_mysdk, Natives(<<Str_libfoo>>))
            @@ "snap11" :> SnapshotModuleFactory(Versioned(Str_mysdk, Str_11),
                                                 Natives(<<Str_libfoo11>>))
            @@ "snap12" :> SnapshotModuleFactory(Versioned(Str_mysdk, Str_12),
                                                 JavaLibs(<<Str_libfoo12>>))
            @@ "apexA" :> Mainline(Str_apex, "a", same, uses)
            @@ "libfoo_a" :> Library(Str_libfoo, "a", Str_empty)
            @@ "libfoo11_a" :> Library(Str_libfoo11, "a", Str_libfoo)
            @@ "libfoo12_a" :> Library(Str_libfoo12, "a", Str_libfoo),
            "apexA" :> <<Dep("libfoo_a", OtherDepTag), Dep("libfoo12_a", OtherDepTag)>>)
      : uses \in UsesSets, same \in {{}, {"libfoo12_a"}} }

\* apexA depends on libfoo (member of mysdk and, with dup, also of a second
\* sdk), on libbaz (in no SDK), on defs by a defaults edge, and through gen,
\* which is not SDK aware, on libbar.  With inherit, sdk mysdk, a defaultable
\* module, has a defaults edge to defs as well, and so has the second sdk.
\* libfoo and libbar give libbaz as their sdk_member_name.
GraphsD ==
    { Graph(<<"sdk0", "apexA", "libfoo_a", "libbar_a", "gen_a", "defs_a", "libbaz_a">>
              \o (IF dup THEN <<"sdk1">> ELSE << >>),
            "sdk0" :> ModuleFactory(Str_mysdk, Natives(<<Str_libfoo>>))
            @@ "apexA" :> Mainline(Str_apex, "a", same, uses)
            @@ "libfoo_a" :> Library(Str_libfoo, "a", Str_libbaz)
            @@ "libbar_a" :> Library(Str_libbar, "a", Str_libbaz)
            @@ "gen_a" :> Plain(Str_gen, "a")
            @@ "defs_a" :> Library(Str_defs, "a", Str_empty)
            @@ "libbaz_a" :> Library(Str_libbaz, "a", Str_empty)
            @@ (IF dup THEN "sdk1" :> ModuleFactory(Str_other, JavaLibs(<<Str_libfoo>>))
                ELSE << >>),
            "apexA" :> <<Dep("defs_a", DefaultsDepTag), Dep("libfoo_a", OtherDepTag),
                         Dep("gen_a", OtherDepTag), Dep("libbaz_a", OtherDepTag)>>
            @@ "gen_a" :> <<Dep("libbar_a", OtherDepTag)>>
            @@ "sdk0" :> (IF inherit THEN <<Dep("defs_a", DefaultsDepTag)>> ELSE << >>)
            @@ (IF dup /\ inherit THEN "sdk1" :> <<Dep("defs_a", DefaultsDepTag)>>
                ELSE << >>))
      : uses \in UsesSets, dup \in BOOLEAN, same \in {{}, {"libbaz_a"}},
        inherit \in BOOLEAN }

\* The module called libfoo is itself the mysdk@11 snapshot of libbar, and
\* libfoo.mysdk.11 the snapshot of libfoo.
GraphsC ==
    { Graph(<<"sdk0", "snap11", "apexA", "libfoo_a", "libfoo11_a", "libbar_a">>,
            "sdk0" :> ModuleFactory(Str_mysdk, Natives(<<Str_libbar>>))
            @@ "snap11" :> SnapshotModuleFactory(Versioned(Str_mysdk, Str_11),
                                                 Natives(<<Str_libfoo, Str_libfoo11>>))
            @@ "apexA" :> Mainline(Str_apex, "a", {}, uses)
            @@ "libfoo_a" :> Library(Str_libfoo, "a", Str_libbar)
            @@ "libfoo11_a" :> Library(Str_libfoo11, "a", Str_libfoo)
            @@ "libbar_a" :> Library(Str_libbar, "a", Str_empty),
            "apexA" :> <<Dep("libfoo_a", OtherDepTag), Dep("libbar_a", OtherDepTag)>>)
      : uses \in UsesSets }

\* An sdk or sdk_snapshot under every name tried, with member libfoo, next to
\* a second sdk that is named other or, against the convention, mysdk@5.
GraphsN ==
    { Graph(<<"sdkN", "sdkM", "libfoo_a">>,
            "sdkN" :> (IF snap THEN SnapshotModuleFactory(name, Natives(<<Str_libfoo>>))
                       ELSE ModuleFactory(name, Natives(<<Str_libfoo>>)))
            @@ "sdkM" :> ModuleFactory(other, NoProperties)
            @@ "libfoo_a" :> Library(Str_libfoo, "a", Str_empty),
            << >>)
      : name \in SdkNames \ {Versioned(Str_mysdk, Str_5)}, snap \in BOOLEAN,
        other \in {Str_other, Versioned(Str_mysdk, Str_5)} }

Graphs == GraphsA \cup GraphsV \cup GraphsD \cup GraphsC \cup GraphsN

Init ==
    \E g \in Graphs :
        /\ nodes = g.nodes
        /\ mods = g.mods
        /\ directDeps = [n \in DOMAIN g.mods |-> g.mods[n].deps]
        /\ requiredSdks = [n \in DOMAIN g.mods |-> g.mods[n].uses_sdks]
        /\ containingSdk = [n \in DOMAIN g.mods |-> << >>]
        /\ errs = EmptyBag
        /\ mutator = 1
        /\ visited = {}
        /\ pending = << >>
        /\ ran = [n \in DOMAIN g.mods |-> << >>]
        /\ visiting = [n \in DOMAIN g.mods |-> 0]

Next ==
    \/ \E n \in Nodes : memberMutator(n)
    \/ \E n \in Nodes : memberDepsMutator(n)
    \/ \E n \in Nodes : memberDepsVisitChild(n)
    \/ \E n \in Nodes : memberInterVersionMutator(n)
    \/ \E n \in Nodes : sdkDepsMutator(n)
    \/ \E n \in Nodes : sdkDepsReplaceMutator(n)
    \/ \E n \in Nodes : sdkRequirementsMutator(n)
    \/ FinishMutator

Spec == Init /\ [][Next]_vars

(***************************************************************************)
(* Notions the properties are stated with.                                 *)
(***************************************************************************)
Edges(n) == {directDeps[n][i] : i \in 1..Len(directDeps[n])}

\* The modules with a dependency on a module of X
Parents(X) == {a \in Nodes : DepModules(a) \cap X # {}}

\* The ancestors of the modules of X that are reached going up through
\* modules of T only
RECURSIVE AncestorsThrough(_, _)
AncestorsThrough(X, T) ==
    LET more == X \cup Parents(X \cap T)
    IN  IF more = X THEN X ELSE AncestorsThrough(more, T)

Ancestors(m) == AncestorsThrough(Parents({m}), Nodes)

SdkAwareModules == {n \in Nodes : mods[n].sdkAware}

\* The ancestors of m linked to m by a path of SDK aware modules
AwareLinkedAncestors(m) == AncestorsThrough(Parents({m}), SdkAwareModules)

\* The SDK modules with a membership edge to m
ClaimedBy(m) ==
    {s \in Nodes : mods[s].isSdk /\ \E d \in Edges(s) : d.module = m /\ d.tag.kind = "member"}

\* The requirement error of module m about its dependency d
ViolationOf(m, d) ==
    ModuleErrorf(m, MsgRequirement, mods[d].name, ContainingSdk(d), requiredSdks[m])

\* The requirement check has run on module m
Checked(m) == Done \/ (Mutators[mutator].name = "SdkRequirementCheck" /\ m \in visited)

(***************************************************************************)
(* C1. Soundness of the requirement check: once step 6 has run on a module *)
(* m that has DepIsInSameApex and a non-empty RequiredSdks, every SDK      *)
(* aware direct dependency of m that is not reached by a defaults edge and *)
(* is not in the same APEX either has its containing SDK among m's         *)
(* required SDKs or an error is reported on m that names that dependency,  *)
(* its containing SDK and the required SDKs.                               *)
(***************************************************************************)
C1_ValidationSound ==
    \A m \in Nodes :
        (Checked(m) /\ mods[m].sdkAware /\ mods[m].apexAware /\ requiredSdks[m] # {})
        => \A d \in Edges(m) :
              (/\ mods[d.module].sdkAware
               /\ d.tag # DefaultsDepTag
               /\ d.module \notin mods[m].sameApex)
              => \/ ContainingSdk(d.module) \in requiredSdks[m]
                 \/ BagIn(ViolationOf(m, d.module), errs)

\* Scenario D: required {mysdk@11}, dependency in mysdk@12, violation reported
C1_Witness ==
    /\ Done
    /\ "libfoo12_a" \in Nodes
    /\ requiredSdks["apexA"] = {Ref11}
    /\ Dep("libfoo12_a", OtherDepTag) \in Edges("apexA")
    /\ "libfoo12_a" \notin mods["apexA"].sameApex
    /\ ContainingSdk("libfoo12_a") = Ref12
    /\ BagIn(ModuleErrorf("apexA", MsgRequirement, Str_libfoo12, Ref12, {Ref11}), errs)

(***************************************************************************)
(* C2. Monotonicity of requirement propagation.  As claimed: after step 4  *)
(* every SDK aware module's RequiredSdks contains what it held before step *)
(* 4 and the RequiredSdks of every ancestor that has a non-empty one.      *)
(***************************************************************************)
C2_SupersetOfEveryAncestor ==
    mutator = 5 =>
        \A m \in SdkAwareModules :
            /\ mods[m].uses_sdks \subseteq requiredSdks[m]
            /\ \A a \in Ancestors(m) \cap SdkAwareModules :
                  requiredSdks[a] # {} => requiredSdks[a] \subseteq requiredSdks[m]

(***************************************************************************)
(* C2, amended: after step 4 every SDK aware module's RequiredSdks         *)
(* contains what it held before step 4 and the RequiredSdks of every       *)
(* requirement-bearing ancestor it is linked to by a path of SDK aware     *)
(* modules.                                                                *)
(***************************************************************************)
C2_SupersetOfAwareLinkedAncestors ==
    mutator = 5 =>
        \A m \in SdkAwareModules :
            /\ mods[m].uses_sdks \subseteq requiredSdks[m]
            /\ \A a \in AwareLinkedAncestors(m) \cap SdkAwareModules :
                  requiredSdks[a] # {} => requiredSdks[a] \subseteq requiredSdks[m]

\* libfoo.mysdk.11 has received the requirement of apexA through libfoo
C2_Witness ==
    /\ mutator = 5
    /\ "libfoo11_a" \in Nodes
    /\ requiredSdks["apexA"] # {}
    /\ "apexA" \in AwareLinkedAncestors("libfoo11_a") \ Parents({"libfoo11_a"})
    /\ requiredSdks["apexA"] \subseteq requiredSdks["libfoo11_a"]

(***************************************************************************)
(* C3. Single assignment of containment: when step 2 has run on the whole  *)
(* graph, a module that exactly one SDK module has a membership edge to    *)
(* has that SDK module's (name, version) as its containing SDK, in         *)
(* whatever order the modules were visited.                                *)
(***************************************************************************)
C3_SingleClaimantRecorded ==
    (~Done /\ Mutators[mutator].name = "SdkMemberInterVersion") =>
        \A m \in SdkAwareModules :
            \A s \in ClaimedBy(m) :
                ClaimedBy(m) = {s} =>
                    /\ IsInAnySdk(m)
                    /\ SdkVersionSeparator \notin
                          {ContainingSdk(m).Name[i] : i \in 1..Len(ContainingSdk(m).Name)}
                    /\ mods[s].name \in
                          {ContainingSdk(m).Name} \cup
                          {Versioned(ContainingSdk(m).Name, ContainingSdk(m).Version)}
                    /\ (ContainingSdk(m).Version = Str_empty) =
                          (mods[s].name \in {ContainingSdk(m).Name,
                                             Versioned(ContainingSdk(m).Name, Str_empty)})

\* the member of snapshot mysdk@11 after step 2
C3_Witness ==
    /\ mutator = 3
    /\ "libfoo11_a" \in Nodes
    /\ ClaimedBy("libfoo11_a") = {"snap11"}
    /\ containingSdk["libfoo11_a"] = <<Ref11>>

C5_ScenarioA ==
    Done =>
      \A m \in Nodes : \A i \in 1..Len(mods[m].deps) :
        LET u == mods[m].deps[i].module
            vs == {v \in Nodes : /\ mods[v].memberName = Str_libfoo
                                 /\ mods[v].variant = mods[u].variant
                                 /\ containingSdk[v] = <<Ref11>>}
        IN  (/\ mods[u].name = Str_libfoo
             /\ containingSdk[u] = <<RefDev>>
             /\ vs # {})
            => /\ (Ref11 \in mods[m].uses_sdks /\ Ref12 \notin mods[m].uses_sdks)
                    => directDeps[m][i].module \in vs
               /\ mods[m].uses_sdks = {} => directDeps[m][i].module = u

\* apexA, requiring mysdk@11, is rewired; apexB, requiring nothing, is not
C5_Witness ==
    /\ Done
    /\ "apexB" \in Nodes
    /\ mods["apexA"].uses_sdks = {Ref11}
    /\ mods["apexA"].deps[1].module = "libfoo_a"
    /\ directDeps["apexA"][1].module = "libfoo11_a"
    /\ directDeps["apexA"][2].module = "libfoo11_a"
    /\ mods["apexB"].uses_sdks = {}
    /\ containingSdk["libfoo11_b"] = <<Ref11>>
    /\ directDeps["apexB"][1].module = "libfoo_b"

(***************************************************************************)
(* A second run of step 5 on the graph that the first run left.            *)
(***************************************************************************)
Replacing == {n \in Nodes : ReplaceRequest(n) # << >>}

Perms(S) ==
    {s \in [1..Cardinality(S) -> S] :
        \A i, j \in 1..Cardinality(S) : i # j => s[i] # s[j]}

\* The orders in which a bottom-up run can visit the modules of S
BottomUpOrders(S) ==
    {s \in Perms(S) :
        \A i, j \in 1..Cardinality(S) : i < j => s[i] \notin Ancestors(s[j])}

RequestOf(n) == ReplaceRequest(n)[1]

\* The edges after step 5 is run again, visiting the replacing modules in
\* the given order
SecondRun(order) ==
    ApplyChanges(directDeps, [n \in Nodes |-> ReverseDeps(n)],
                 [i \in 1..Len(order) |-> RequestOf(order[i])])

StepFiveJustRan ==
    /\ ~Done
    /\ Mutators[mutator].name = "SdkRequirementCheck"
    /\ visited = {}

(***************************************************************************)
(* C6. Idempotence of replacement.  As claimed: once steps 1 to 4 are      *)
(* complete, running step 5 twice over the whole graph leaves every edge   *)
(* with the target it has after running it once.                           *)
(***************************************************************************)
C6_ReplaceTwiceSameAsOnce ==
    StepFiveJustRan => \A order \in BottomUpOrders(Replacing) : SecondRun(order) = directDeps

(***************************************************************************)
(* Names of SDK modules, read without the reference parser.                *)
(***************************************************************************)
SdkModules == {n \in Nodes : mods[n].isSdk}

\* The characters after the separator of a name, << >> when it has none
SuffixOf(name) ==
    IF \E i \in 1..Len(name) : name[i] = SdkVersionSeparator
    THEN LET i == CHOOSE k \in 1..Len(name) : name[k] = SdkVersionSeparator
         IN  SubSeq(name, i + 1, Len(name))
    ELSE << >>

HasVersionSuffix(name) == SuffixOf(name) # << >>

IsDigits(v) == Len(v) > 0 /\ \A i \in 1..Len(v) : v[i] \in Digits

\* An optional sign and digits
IsSignedDigits(v) ==
    \/ IsDigits(v)
    \/ Len(v) > 1 /\ v[1] \in {"-", "+"} /\ IsDigits(Tail(v))

StepTwoDone == Done \/ mutator > 2

ErrorsOn(n) == {e \in BagToSet(errs) : e.module = n}

(***************************************************************************)
(* C7. When step 2 has run, an SDK module has the property error on "name" *)
(* that a snapshot should be named <name>@<version> exactly when it is a   *)
(* snapshot whose name has no version suffix, and the property error that  *)
(* an sdk should not be named so exactly when it is not a snapshot and its *)
(* name has a version suffix.                                              *)
(***************************************************************************)
C7_NamingConvention ==
    StepTwoDone =>
        \A s \in SdkModules :
            /\ BagIn(PropertyErrorf(s, "name", MsgSnapshotName, Str_empty), errs)
                  <=> (mods[s].Snapshot /\ ~HasVersionSuffix(mods[s].name))
            /\ BagIn(PropertyErrorf(s, "name", MsgSdkName, Str_empty), errs)
                  <=> (~mods[s].Snapshot /\ HasVersionSuffix(mods[s].name))

\* Scenario B: the sdk named mysdk@5 that is no snapshot, next to a snapshot
\* named without a version
C7_Witness ==
    /\ mutator = 3
    /\ "sdkM" \in Nodes
    /\ mods["sdkM"].name = Versioned(Str_mysdk, Str_5)
    /\ ~mods["sdkM"].Snapshot
    /\ BagIn(PropertyErrorf("sdkM", "name", MsgSdkName, Str_empty), errs)
    /\ mods["sdkN"].name = Str_mysdk
    /\ mods["sdkN"].Snapshot
    /\ BagIn(PropertyErrorf("sdkN", "name", MsgSnapshotName, Str_empty), errs)

(***************************************************************************)
(* C8. Version tokens.  As claimed: when step 2 has run, a snapshot with   *)
(* no error has a version suffix that is "current" or a non-negative       *)
(* integer literal, and every SDK module whose non-empty version suffix is *)
(* neither has the property error "neither a number nor current" on        *)
(* "name".                                                                 *)
(***************************************************************************)
C8_VersionCurrentOrNonNegative ==
    StepTwoDone =>
        \A s \in SdkModules :
            LET v == SuffixOf(mods[s].name)
            IN  /\ (mods[s].Snapshot /\ ErrorsOn(s) = {})
                      => (v = Str_current \/ IsDigits(v))
                /\ (v # << >> /\ v # Str_current /\ ~IsDigits(v))
                      => BagIn(PropertyErrorf(s, "name", MsgVersion, v), errs)

(***************************************************************************)
(* C9. Pass barrier ordering: the mutators run on every module in the      *)
(* order membership assignment, containment recording, inter-version edge  *)
(* creation, requirement propagation, edge replacement, requirement        *)
(* validation, and no module has a mutator run on it before the previous   *)
(* mutator has run on every module.                                        *)
(***************************************************************************)
PipelineOrder ==
    <<"SdkMember", "SdkMember_deps", "SdkMemberInterVersion",
      "SdkDepsMutator", "SdkDepsReplaceMutator", "SdkRequirementCheck">>

C9_PassBarrierOrder ==
    \A n \in Nodes :
        /\ Len(ran[n]) <= Len(PipelineOrder)
        /\ ran[n] = SubSeq(PipelineOrder, 1, Len(ran[n]))
        /\ \A m \in Nodes : Len(ran[n]) <= Len(ran[m]) + 1

\* in the middle of step 4: apexA has been visited, its dependency libfoo
\* waits, and the modules are visited in parallel (two of them are ready)
C9_Witness ==
    /\ mutator = 4
    /\ {"apexA", "libfoo_a"} \subseteq Nodes
    /\ Len(ran["apexA"]) = 4
    /\ Len(ran["libfoo_a"]) = 3
    /\ Cardinality({n \in Nodes \ visited : Ready(n)}) >= 2

(***************************************************************************)
(* C10. Errors are accumulated.  When the pipeline is done every mutator   *)
(* has run on every module; every SDK module whose name breaks a rule of   *)
(* step 2 has a property error and its members are still recorded; and for *)
(* every module checked in step 6 each offending dependency edge has its   *)
(* own error: the errors about a dependency are as many as the offending   *)
(* edges to the modules of that name and SDK.                              *)
(***************************************************************************)
OffendingName(s) ==
    LET v == SuffixOf(mods[s].name)
    IN  \/ mods[s].Snapshot /\ v = << >>
        \/ ~mods[s].Snapshot /\ v # << >>
        \/ v # << >> /\ v # Str_current /\ ~IsSignedDigits(v)

\* The indexes of the edges of m that break the requirement
OffendingEdges(m) ==
    IF mods[m].sdkAware /\ mods[m].apexAware /\ requiredSdks[m] # {}
    THEN {i \in 1..Len(directDeps[m]) :
            LET d == directDeps[m][i]
            IN  /\ d.tag.kind # "defaults"
                /\ mods[d.module].sdkAware
                /\ d.module \notin mods[m].sameApex
                /\ ContainingSdk(d.module) \notin requiredSdks[m]}
    ELSE {}

C10_ErrorsAccumulate ==
    Done =>
        /\ \A n \in Nodes : ran[n] = PipelineOrder
        /\ \A s \in SdkModules :
              /\ OffendingName(s) => \E e \in ErrorsOn(s) : e.kind = "property"
              /\ \A d \in Edges(s) : mods[d.module].sdkAware => IsInAnySdk(d.module)
        /\ \A m \in Nodes :
              /\ \A i \in OffendingEdges(m) :
                    LET e == ViolationOf(m, directDeps[m][i].module)
                    IN  CopiesIn(e, errs) =
                            Cardinality({j \in OffendingEdges(m) :
                                            ViolationOf(m, directDeps[m][j].module) = e})
              /\ Cardinality({e \in ErrorsOn(m) : e.kind = "module"}) <=
                    Cardinality(OffendingEdges(m))

\* apexA requires mysdk@11 and has two offending dependencies, libfoo of the
\* unversioned mysdk and libbaz of no SDK: both errors are recorded
C10_Witness ==
    /\ Done
    /\ "libbaz_a" \in Nodes
    /\ requiredSdks["apexA"] = {Ref11}
    /\ Cardinality(OffendingEdges("apexA")) = 2
    /\ CopiesIn(ViolationOf("apexA", "libfoo_a"), errs) = 1
    /\ CopiesIn(ViolationOf("apexA", "libbaz_a"), errs) = 1


\* This step is a step of the running mutator's visit of module n: the
\* visit starts, or it comes to a dependency of n
VisitStep(n) == n \in visited' \ visited \/ visiting'[n] # visiting[n]

(***************************************************************************)
(* C11. A name error blocks the SDK module.  As claimed: the visit of step *)
(* 2 to an SDK module that reports a property error on the module records  *)
(* that module as the containing SDK of none of its dependencies: every    *)
(* step of the visit, once the error is reported, leaves every module's    *)
(* containing SDK as it was.                                               *)
(***************************************************************************)
C11_NameErrorBlocksRecording ==
    [][\A s \in SdkModules :
          (/\ ~Done
           /\ Mutators[mutator].name = "SdkMember_deps"
           /\ VisitStep(s)
           /\ \E e \in ErrorsOn(s)' : e.kind = "property")
          => containingSdk' = containingSdk]_vars


\* The modules that s depends on by edges that are not membership edges only
NonMemberDepsOnly(s) ==
    {d \in DepModules(s) : \A e \in Edges(s) : e.module = d => e.tag.kind # "member"}

(***************************************************************************)
(* C12. Containment is recorded along membership edges only.  As claimed:  *)
(* when step 2 runs on an SDK module, an SDK aware module that it depends  *)
(* on only by edges that carry no membership tag, a defaults edge for      *)
(* instance, keeps the containing SDK it had.                              *)
(***************************************************************************)
C12_OnlyMembershipEdgesRecord ==
    [][\A s \in SdkModules :
          (/\ ~Done
           /\ Mutators[mutator].name = "SdkMember_deps"
           /\ VisitStep(s))
          => \A d \in NonMemberDepsOnly(s) \cap SdkAwareModules :
                containingSdk'[d] = containingSdk[d]]_vars


(***************************************************************************)
(* What a visit writes.  A reverse dependency or a replacement that the    *)
(* visit of a module requests is a write of that visit: the host applies   *)
(* it for the module when the mutator has visited the graph.               *)
(***************************************************************************)
\* The modules whose edges change when the requested change c is applied
EdgesWrittenBy(c) ==
    {m \in Nodes :
        ApplyChange(directDeps, [k \in Nodes |-> ReverseDeps(k)], c)[m] # directDeps[m]}

\* The changes requested in this step
Requested(before, after) == {after[i] : i \in (Len(before) + 1)..Len(after)}

\* The modules whose fields or edges this step changes directly
Touched ==
    {m \in Nodes : \/ containingSdk'[m] # containingSdk[m]
                   \/ requiredSdks'[m] # requiredSdks[m]
                   \/ directDeps'[m] # directDeps[m]}

(***************************************************************************)
(* C13. Mutation discipline.  As claimed: the visit of a module n, in any  *)
(* of the six steps, changes only the fields and edges of n and the fields *)
(* of the direct dependencies of n, the edges it asks the host to add or   *)
(* to replace included: no edge of a sibling, of an ancestor or of an      *)
(* unrelated module is changed.                                            *)
(***************************************************************************)
C13_OnlyOwnAndDirectDeps ==
    [][\A n \in Nodes :
          VisitStep(n) =>
             /\ Touched \subseteq {n} \cup DepModules(n)
             /\ \A m \in DepModules(n) \ {n} : directDeps'[m] = directDeps[m]
             /\ \A c \in Requested(pending, pending') : EdgesWrittenBy(c) \subseteq {n}]_vars


\* Edge i of module m after the step is new or differs from what it was
EdgeChanged(m, i) ==
    \/ i > Len(directDeps[m])
    \/ directDeps'[m][i] # directDeps[m][i]

(***************************************************************************)
(* C13, amended: the visit of a module n changes directly only the edges   *)
(* of n (step 1) and the fields of n and of its direct dependencies (steps *)
(* 2 and 4); and every edge of another module that is changed for n, when  *)
(* the host applies what steps 3 and 5 requested, is an edge that is added *)
(* to the module n named (step 3) or an edge to that module (step 5), and  *)
(* it points at n afterwards.  No field of a module that is neither n nor  *)
(* a direct dependency of n is changed.                                    *)
(***************************************************************************)
C13_WritesOwnDirectDepsOrEdgesToSelf ==
    [][/\ \A n \in Nodes :
             VisitStep(n) =>
                /\ Touched \subseteq {n} \cup DepModules(n)
                /\ \A m \in DepModules(n) \ {n} : directDeps'[m] = directDeps[m]
                /\ \A c \in Requested(pending, pending') : c.to = n
       /\ mutator' # mutator =>
             /\ containingSdk' = containingSdk
             /\ requiredSdks' = requiredSdks
             /\ \A m \in Nodes :
                   /\ Len(directDeps'[m]) >= Len(directDeps[m])
                   /\ \A i \in 1..Len(directDeps'[m]) :
                         EdgeChanged(m, i) =>
                            \E k \in 1..Len(pending) :
                               LET c == pending[k]
                               IN  /\ directDeps'[m][i].module = c.to
                                   /\ IF c.op = "reverse"
                                      THEN /\ m = c.from
                                           /\ i > Len(directDeps[m])
                                           /\ mods[m].name = mods[c.to].memberName
                                      ELSE /\ i <= Len(directDeps[m])
                                           /\ directDeps[m][i].module = c.from
                                           /\ directDeps'[m][i].tag = directDeps[m][i].tag
                                           /\ mods[c.from].name = mods[c.to].memberName]_vars

\* steps 3 and 5 have changed edges of modules other than the visited one:
\* libfoo has the version-tagged edge to libfoo.mysdk.11, and the edges of
\* apexA to libfoo point at libfoo.mysdk.11; steps 2 and 4 wrote the fields
\* of direct dependencies
C13_Witness ==
    /\ ~Done
    /\ Mutators[mutator].name = "SdkRequirementCheck"
    /\ "apexB" \in Nodes
    /\ Dep("libfoo11_a", VersionedDepTag(Str_libfoo, Str_11)) \in Edges("libfoo_a")
    /\ mods["apexA"].deps[1].module = "libfoo_a"
    /\ directDeps["apexA"][1].module = "libfoo11_a"
    /\ containingSdk["libfoo11_a"] = <<Ref11>>
    /\ requiredSdks["libfoo11_a"] = {Ref11}


\* The modules with the name v gives as its member name, in the variant of v
NamedByMember(v) ==
    {d \in Nodes : mods[d].name = mods[v].memberName /\ mods[d].variant = mods[v].variant}

\* v is SDK aware and in an SDK with a version
InVersionedSdk(v) ==
    /\ mods[v].sdkAware
    /\ containingSdk[v] # << >>
    /\ containingSdk[v][1].Version # Str_empty

\* The indexes of the version-tagged edges from d to v
VersionedEdges(d, v) ==
    {i \in 1..Len(directDeps[d]) :
        directDeps[d][i].tag.kind = "versioned" /\ directDeps[d][i].module = v}

StepThreeDone == ~Done /\ Mutators[mutator].name \in {"SdkDepsMutator", "SdkDepsReplaceMutator"}

(***************************************************************************)
(* C14. Version-tagged edges.  When step 3 is done, the module that an SDK *)
(* aware module v names as its member has exactly one version-tagged edge  *)
(* to v, tagged with v's member name and the version of v's containing     *)
(* SDK, when v is in an SDK with a version, and none when v is in no SDK   *)
(* or in an unversioned one; and every version-tagged edge goes from the   *)
(* module named by the tag's member to a module whose containing SDK has   *)
(* the version of the tag.                                                 *)
(***************************************************************************)
C14_VersionedEdgesExactly ==
    StepThreeDone =>
        /\ \A v \in Nodes : \A d \in NamedByMember(v) :
              IF InVersionedSdk(v)
              THEN /\ Cardinality(VersionedEdges(d, v)) = 1
                   /\ \A i \in VersionedEdges(d, v) :
                         /\ directDeps[d][i].tag.member = mods[v].memberName
                         /\ directDeps[d][i].tag.version = containingSdk[v][1].Version
              ELSE VersionedEdges(d, v) = {}
        /\ \A m \in Nodes : \A e \in Edges(m) :
              e.tag.kind = "versioned" =>
                 /\ InVersionedSdk(e.module)
                 /\ m \in NamedByMember(e.module)
                 /\ e.tag.version = containingSdk[e.module][1].Version

\* libfoo has got the edges to libfoo.mysdk.11 and libfoo.mysdk.12, and has
\* itself, a member of the unversioned mysdk, added none
C14_Witness ==
    /\ StepThreeDone
    /\ "libfoo12_a" \in Nodes
    /\ containingSdk["libfoo_a"] = <<RefDev>>
    /\ Dep("libfoo11_a", VersionedDepTag(Str_libfoo, Str_11)) \in Edges("libfoo_a")
    /\ Dep("libfoo12_a", VersionedDepTag(Str_libfoo, Str_12)) \in Edges("libfoo_a")
    /\ \A m \in Nodes : \A e \in Edges(m) : e.module = "libfoo_a" => e.tag.kind # "versioned"


\* The required SDKs of every module after one more visit of step 4 to n
RequiredAfterVisit(n) ==
    [d \in Nodes |->
        IF /\ mods[n].sdkAware
           /\ requiredSdks[n] # {}
           /\ d \in DepModules(n)
           /\ mods[d].sdkAware
        THEN requiredSdks[d] \cup requiredSdks[n]
        ELSE requiredSdks[d]]

StepFourJustRan ==
    /\ ~Done
    /\ Mutators[mutator].name = "SdkDepsReplaceMutator"
    /\ visited = {}

(***************************************************************************)
(* C15. One sweep of step 4 reaches the fixed point: when step 4 has       *)
(* visited every module once, dependents before dependencies, no visit of  *)
(* a second run changes the required SDKs of any module, so a second run   *)
(* over the whole graph, in any order, changes none.                       *)
(***************************************************************************)
C15_OneSweepFixedPoint ==
    StepFourJustRan => \A n \in Nodes : RequiredAfterVisit(n) = requiredSdks

\* the requirement of apexA has gone down two edges, through libfoo to
\* libfoo.mysdk.11 and libfoo.mysdk.12, and a second run has it to pass on
C15_Witness ==
    /\ StepFourJustRan
    /\ "libfoo12_a" \in Nodes
    /\ mods["apexA"].uses_sdks = {Ref11, Ref12}
    /\ "libfoo11_a" \in DepModules("libfoo_a") \ DepModules("apexA")
    /\ mods["libfoo11_a"].uses_sdks = {}
    /\ requiredSdks["libfoo_a"] = {Ref11, Ref12}
    /\ requiredSdks["libfoo11_a"] = {Ref11, Ref12}


\* This step is the host applying the replacements that step 5 requested
ReplacementsApplied ==
    /\ ~Done
    /\ Mutators[mutator].name = "SdkDepsReplaceMutator"
    /\ mutator' # mutator

\* The edges after the first k requested changes are applied
AfterFirst(k) ==
    ApplyChanges(directDeps, [n \in Nodes |-> ReverseDeps(n)], SubSeq(pending, 1, k))

\* The requested changes that change edge i of module m when they are applied
ChangesOf(m, i) ==
    {k \in 1..Len(pending) : AfterFirst(k)[m][i] # AfterFirst(k - 1)[m][i]}

\* Edge i of module m was an edge to u and is one to v after the step, where
\* v is in an SDK with a version that v itself is required to be built
\* with, and u has the name v gives as its member name
RewiredToRequiredVersion(m, i) ==
    LET u == directDeps[m][i].module
        v == directDeps'[m][i].module
    IN  /\ directDeps'[m][i].tag = directDeps[m][i].tag
        /\ InVersionedSdk(v)
        /\ mods[v].memberName = mods[u].name
        /\ containingSdk[v][1] \in requiredSdks[v]

(***************************************************************************)
(* C16. Conditions of a replacement.  When the replacements of step 5 are  *)
(* applied, an edge of a dependent m that changes was an edge to the       *)
(* member named M and becomes an edge to a module V that is in an SDK with *)
(* a version, has member name M, is required to be built with its own      *)
(* containing SDK, and has the build variant of m; the edges of dependents *)
(* in other variants are unchanged; and no edge is changed by more than    *)
(* one of the replacements of the run.                                     *)
(***************************************************************************)
C16_RewiredDependentHasVariant ==
    [][ReplacementsApplied =>
          \A m \in Nodes :
             /\ Len(directDeps'[m]) = Len(directDeps[m])
             /\ \A i \in 1..Len(directDeps[m]) :
                   /\ directDeps'[m][i] # directDeps[m][i] =>
                         /\ RewiredToRequiredVersion(m, i)
                         /\ mods[m].variant = mods[directDeps'[m][i].module].variant
                   /\ Cardinality(ChangesOf(m, i)) <= 1]_vars

\* The replacements are applied: the edges of apexA to libfoo in variant a
\* point at libfoo.mysdk.11; the membership edge of sdk mysdk, which has
\* another variant, still points at libfoo, and the edge of apexB to libfoo
\* in variant b is as it was
C16_Witness ==
    /\ ~Done
    /\ Mutators[mutator].name = "SdkRequirementCheck"
    /\ "apexB" \in Nodes
    /\ mods["apexA"].deps[1].module = "libfoo_a"
    /\ directDeps["apexA"][1].module = "libfoo11_a"
    /\ mods["apexA"].variant = mods["libfoo11_a"].variant
    /\ Dep("libfoo_a", MemberTag("native_shared_libs")) \in Edges("sdk0")
    /\ mods["sdk0"].variant # mods["libfoo11_a"].variant
    /\ directDeps["apexB"][1].module = "libfoo_b"
    /\ Ref11 \in requiredSdks["libfoo11_a"]
    /\ requiredSdks["libfoo11_b"] = {}

\* The mutator that is running, "" when the pipeline is done
Running == IF Done THEN "" ELSE Mutators[mutator].name

(***************************************************************************)
(* C17. Frame conditions of the steps.  The containing SDK of a module is  *)
(* written during step 2 only and its required SDKs during step 4 only:    *)
(* steps 1, 3, 5 and 6 leave both fields of every module unchanged, step 4 *)
(* leaves every containing SDK unchanged, and step 6 changes neither the   *)
(* fields nor the edges.                                                   *)
(***************************************************************************)
C17_PassFrameConditions ==
    [][/\ containingSdk' # containingSdk => Running = "SdkMember_deps"
       /\ requiredSdks' # requiredSdks => Running = "SdkDepsMutator"
       /\ Running = "SdkRequirementCheck" => directDeps' = directDeps]_vars

\* Every step has acted: the member of mysdk@11 has its containing SDK and
\* its required SDKs, the edge of apexA is replaced, and step 6 has reported
\* the dependency on the member of mysdk@12
C17_Witness ==
    /\ Done
    /\ "libfoo12_a" \in Nodes
    /\ containingSdk["libfoo11_a"] = <<Ref11>>
    /\ requiredSdks["libfoo11_a"] = {Ref11}
    /\ mods["libfoo11_a"].uses_sdks = {}
    /\ directDeps["apexA"][1].module = "libfoo11_a"
    /\ Len(directDeps["libfoo_a"]) = 2
    /\ errs # EmptyBag


\* The requirement errors reported so far
RequirementErrors == {e \in BagToSet(errs) : e.kind = "module"}

(***************************************************************************)
(* C18. No false violation.  Every requirement error is an error on a      *)
(* module M with a non-empty required-SDK set about a module D that M      *)
(* depends on by an edge that is not a defaults edge, where D is SDK       *)
(* aware, is not in the same APEX as M and has a containing SDK that is    *)
(* not among the required SDKs of M.  So a module with no required SDK has *)
(* no such error; and once step 6 has run on M, a dependency of that kind  *)
(* that is in no SDK at all has its error.                                 *)
(***************************************************************************)
C18_NoFalseViolation ==
    /\ \A e \in RequirementErrors :
          /\ requiredSdks[e.module] # {}
          /\ \E d \in Edges(e.module) :
                /\ d.tag.kind # "defaults"
                /\ mods[d.module].sdkAware
                /\ d.module \notin mods[e.module].sameApex
                /\ ContainingSdk(d.module) \notin requiredSdks[e.module]
                /\ e = ViolationOf(e.module, d.module)
    /\ \A m \in Nodes :
          (Checked(m) /\ mods[m].sdkAware /\ mods[m].apexAware /\ requiredSdks[m] # {})
          => \A d \in Edges(m) :
                (/\ d.tag.kind # "defaults"
                 /\ mods[d.module].sdkAware
                 /\ d.module \notin mods[m].sameApex
                 /\ containingSdk[d.module] = << >>)
                => BagIn(ModuleErrorf(m, MsgRequirement, mods[d.module].name,
                                      NoSdk, requiredSdks[m]), errs)

\* apexA requires the unversioned mysdk: libbaz, in no SDK, is reported;
\* libfoo of mysdk and defs, in no SDK but behind a defaults edge, are not
C18_Witness ==
    /\ Done
    /\ "libbaz_a" \in Nodes
    /\ requiredSdks["apexA"] = {RefDev}
    /\ mods["apexA"].sameApex = {}
    /\ containingSdk["libbaz_a"] = << >>
    /\ containingSdk["defs_a"] = << >>
    /\ Dep("defs_a", DefaultsDepTag) \in Edges("apexA")
    /\ RequirementErrors =
          {ModuleErrorf("apexA", MsgRequirement, Str_libbaz, NoSdk, {RefDev})}


\* Step 5 has visited every module and the host is about to apply what the
\* modules requested, in the order of the visits
StepFiveVisited ==
    /\ ~Done
    /\ Mutators[mutator].name = "SdkDepsReplaceMutator"
    /\ visited = Nodes

\* The edges that step 5 leaves when it visits the replacing modules in the
\* given order
EdgesAfterStepFive(order) ==
    ApplyChanges(directDeps, [n \in Nodes |-> ReverseDeps(n)],
                 [i \in 1..Len(order) |-> RequestOf(order[i])])

(***************************************************************************)
(* C19. Determinism of the replacement.  As claimed: for the graph that    *)
(* step 4 left, the edges after step 5 are the same in whatever order the  *)
(* modules were visited in step 5: the edges that the order of this run    *)
(* gives are the edges that every other bottom-up order gives, also when a *)
(* module requires two versions of an SDK that both have a member of the   *)
(* same name.                                                              *)
(***************************************************************************)
C19_ReplacementOrderIndependent ==
    StepFiveVisited =>
        \A order \in BottomUpOrders(Replacing) :
            EdgesAfterStepFive(order) =
                ApplyChanges(directDeps, [n \in Nodes |-> ReverseDeps(n)], pending)

=============================================================================
